---- MODULE Spec2Model ----
(***************************************************************************)
(* Model of src/main.py, the Streamlit script of the YouTube Analysis      *)
(* Assistant.  Streamlit re-executes the whole script, top to bottom, once *)
(* per user interaction of a browser session; one action below is one such *)
(* script run.  st.session_state is kept per browser session; the object   *)
(* returned by the @st.cache_resource function load_chain is created once  *)
(* per server process and handed to every script run of every session.     *)
(***************************************************************************)
EXTENDS Naturals, Sequences, FiniteSets, TLC

\* ------------------------------------------------------------ bounds
\* Most turns one session's history may hold before it has to be cleared.
MaxTurns == 2
\* Longest reply, in tokens, given to the extractor on its own.
MaxLen == 5

\* ------------------------------------------------------------ values
\* Browser sessions that may connect to the one server process.
Sessions == {"s1", "s2"}

\* randint(1000, 10000000), cut to the two lowest values it can return.
IdRange == {1000, 1001}

START == "Thumbnail Prompt:"
END == "Content Enhancement:"
Whitespace == {" ", "\n"}
\* A reply is a sequence of tokens: the two labels, a word, a space, a line break.
Tokens == {START, END, "word"} \cup Whitespace

\* re.search found nothing: None.
NoMatch == [found |-> FALSE, start |-> 0, stop |-> 0, group1 |-> <<>>]
\* The script's variable "output" before any branch has assigned it: reading it
\* raises NameError.
Undefined == [defined |-> FALSE, text |-> <<>>]
NoFile == "None"
BadBytes == "invalid utf-8"

FileLabel == "File received. Currently reviewing..."
VideoLabel == "Video received. Currently reviewing..."
ImagePrefix == "Create a colorful engaging YouTube Thumbnail without text based on this design: "

\* What the user may type in the form: nothing, or a message.
UserTexts == {"", "hello"}
\* What the file uploader may hold: nothing, a UTF-8 document, undecodable bytes.
Uploads == {NoFile, "document text", BadBytes}
\* What the transcription service returns for the URL typed in.
Transcripts == {"transcript text"}
\* The call of a script run that raises, if the run gets to it; at most one does,
\* since nothing after an uncaught exception is executed.
Failures == {"none", "acquisition", "write", "open", "inference", "generation",
             "image decoding"}
\* The button whose click started the script run ("other": any other widget).
Clicks == {"send", "file submit", "url submit", "other"}
\* What the chat model may answer.
Replies == { <<"word">>,
             <<"word", START, " ", "word", "\n", END, "word">>,
             <<END, START, END>> }

VARIABLES session_state, memory, sent, fresh, run, probe

vars == <<session_state, memory, sent, fresh, run, probe>>

\* ------------------------------------------------------------ helpers
Last(q) == q[Len(q)]

Count(q, x) == Cardinality({i \in 1..Len(q) : q[i] = x})

\* zip(a, b): pairs up to the shorter of the two lists.
Zip(a, b) ==
    LET n == IF Len(a) < Len(b) THEN Len(a) ELSE Len(b)
    IN  [i \in 1..n |-> <<a[i], b[i]>>]

\* Every token sequence of length at most n.
RECURSIVE SeqsUpTo(_)
SeqsUpTo(n) ==
    IF n = 0 THEN {<<>>}
    ELSE LET shorter == SeqsUpTo(n - 1)
         IN  shorter \cup {Append(q, t) : q \in {x \in shorter : Len(x) = n - 1}, t \in Tokens}

\* ------------------------------------------------------------ the extractor
\* re.DOTALL: "." matches every token, a line break included.
DotMatches(t) == TRUE

\* The lazy "(.*?)" followed by the end label, tried from position j on: the end
\* label is tried first, and only when it is not there does "." take one more token.
RECURSIVE LazyScan(_, _)
\* A greedy "(.*)" in its place: the scan runs on to the last end label.
LazyScanGreedy(r, j) ==
    LET ends == {k \in j..Len(r) : r[k] = END}
    IN  IF ends = {} THEN 0 ELSE CHOOSE k \in ends : \A m \in ends : m <= k

LazyScan(r, j) ==
    IF j > Len(r) THEN 0
    ELSE IF r[j] = END THEN j
    ELSE IF DotMatches(r[j]) THEN LazyScan(r, j + 1)
    ELSE 0

\* The pattern anchored at position i: the start label there, then the lazy scan.
\* 0 when it does not match at i, else the position of the end label it stops at.
MatchAt(r, i) == IF r[i] = START THEN LazyScan(r, i + 1) ELSE 0

\* re.search(pattern, r, re.DOTALL): the leftmost position the pattern matches at;
\* the match's group(1) is what lies between the two labels.
re_search(r) ==
    LET hits == {i \in 1..Len(r) : MatchAt(r, i) # 0}
    IN  IF hits = {} THEN NoMatch
        ELSE LET i == CHOOSE h \in hits : \A g \in hits : h <= g
             IN  [found |-> TRUE, start |-> i, stop |-> MatchAt(r, i),
                  group1 |-> SubSeq(r, i + 1, MatchAt(r, i) - 1)]

\* str.strip(): whitespace removed at both ends.
RECURSIVE lstrip(_)
lstrip(q) ==
    IF q # <<>> /\ q[1] \in Whitespace THEN lstrip(Tail(q)) ELSE q

RECURSIVE rstrip(_)
rstrip(q) ==
    IF q # <<>> /\ Last(q) \in Whitespace THEN rstrip(SubSeq(q, 1, Len(q) - 1)) ELSE q

strip(q) == rstrip(lstrip(q))

\* The prompt with the segment left out of the f-string.
image_prompt_NoSegment(result) == <<ImagePrefix>>

\* The f-string handed to generate_image.
image_prompt(result) == <<ImagePrefix>> \o result

\* ------------------------------------------------------------ the pipeline's parts
\* create_prompt: the fixed template with the context and the checklist put in.
create_prompt(context) == <<"instructions", context, "Provide Summary Here:", "questions">>

\* bytes.decode("utf-8")
decode(bytes) ==
    IF bytes = BadBytes THEN [raised |-> TRUE, text |-> ""]
    ELSE [raised |-> FALSE, text |-> bytes]

\* chain(input): the conversation chain answers against its memory and saves the
\* exchange only once the model has answered; a failed model call saves nothing.
chain(mem, input, ok, reply) ==
    IF ok
    THEN [raised |-> FALSE, response |-> reply,
          memory |-> Append(mem, [human |-> input, ai |-> reply])]
    ELSE [raised |-> TRUE, response |-> <<>>, memory |-> mem]

\* The if / elif chain that picks the action of a script run.  user_input is the
\* text area's string, never None, so the third test is the URL button alone.
Branch(submit_button, user_input, uploaded_file, file_submitted_button, submitted_button) ==
    IF submit_button /\ user_input # "" THEN "direct"
    ELSE IF uploaded_file # NoFile /\ file_submitted_button THEN "document"
    ELSE IF submitted_button THEN "video"
    ELSE "none"

\* ------------------------------------------------------------ the action branches
\* What a branch leaves behind: the two lists, the chain's memory, the calls made
\* in order, the call that raised, the script variable "output", and the chat call
\* made (its input and the memory it was answered against).
Aborted(prev, gen, mem, steps, raised, input) ==
    [previous |-> prev, generated |-> gen, memory |-> mem, steps |-> steps,
     raised |-> raised, output |-> Undefined, input |-> input, context |-> mem]

\* The appends with the second one missing.
RecordTurn_ReplyDropped(prev, gen, label, output) ==
    [previous |-> Append(prev, label), generated |-> gen]

\* The two appends that end every branch.
RecordTurn(prev, gen, label, output) ==
    [previous |-> Append(prev, label), generated |-> Append(gen, output)]

Completed(prev, gen, mem, steps, label, input, c) ==
    LET t == RecordTurn(prev, gen, label, c.response)
    IN  [previous |-> t.previous, generated |-> t.generated, memory |-> c.memory,
         steps |-> steps \o <<"append previous", "append generated">>,
         raised |-> "none", output |-> [defined |-> TRUE, text |-> c.response],
         input |-> input, context |-> mem]

\* No branch taken: nothing is called and "output" is never assigned.
NoBranch(prev, gen, mem) == Aborted(prev, gen, mem, <<>>, "none", <<>>)

\* The direct branch with the user's text appended before the chat call.
DirectBranch_AppendFirst(prev, gen, mem, user_input, fail, reply) ==
    LET c == chain(mem, <<user_input>>, fail # "inference", reply)
    IN  IF c.raised
        THEN Aborted(Append(prev, user_input), gen, mem, <<"append previous", "chain">>,
                     "inference", <<user_input>>)
        ELSE Completed(prev, gen, mem, <<"chain">>, user_input, <<user_input>>, c)

\* if submit_button and user_input
DirectBranch(prev, gen, mem, user_input, fail, reply) ==
    LET c == chain(mem, <<user_input>>, fail # "inference", reply)
    IN  IF c.raised
        THEN Aborted(prev, gen, mem, <<"chain">>, "inference", <<user_input>>)
        ELSE Completed(prev, gen, mem, <<"chain">>, user_input, <<user_input>>, c)

\* elif uploaded_file is not None and file_submitted_button is True
DocumentBranch(prev, gen, mem, uploaded_file, fail, reply) ==
    LET file_content == decode(uploaded_file)
        prompt == create_prompt(file_content.text)
        c == chain(mem, prompt, fail # "inference", reply)
    IN  IF file_content.raised
        THEN Aborted(prev, gen, mem, <<"decode">>, "decode", <<>>)
        ELSE IF c.raised
        THEN Aborted(prev, gen, mem, <<"decode", "create_prompt", "chain">>,
                     "inference", prompt)
        ELSE Completed(prev, gen, mem, <<"decode", "create_prompt", "chain">>,
                       FileLabel, prompt, c)

\* The video branch with the chat call and the appends moved before the export.
VideoBranch_ChatBeforeExport(prev, gen, mem, contents, fail, reply) ==
    LET prompt == create_prompt(contents)
        c == chain(mem, prompt, fail # "inference", reply)
        t == RecordTurn(prev, gen, VideoLabel, c.response)
    IN  IF fail = "acquisition"
        THEN Aborted(prev, gen, mem, <<"get_video_transcript">>, "acquisition", <<>>)
        ELSE IF c.raised
        THEN Aborted(prev, gen, mem,
                     <<"get_video_transcript", "create_prompt", "chain">>,
                     "inference", prompt)
        ELSE IF fail = "write"
        THEN [Aborted(t.previous, t.generated, c.memory,
                      <<"get_video_transcript", "create_prompt", "chain",
                        "append previous", "append generated",
                        "convert_to_text_file">>, "write", prompt)
              EXCEPT !.context = mem]
        ELSE Completed(prev, gen, mem,
                       <<"get_video_transcript", "create_prompt", "chain",
                         "convert_to_text_file", "open", "download_button">>,
                       VideoLabel, prompt, c)

\* elif user_input is not None and submitted_button is True
VideoBranch(prev, gen, mem, contents, fail, reply) ==
    LET prompt == create_prompt(contents)
        c == chain(mem, prompt, fail # "inference", reply)
    IN  IF fail = "acquisition"
        THEN Aborted(prev, gen, mem, <<"get_video_transcript">>, "acquisition", <<>>)
        ELSE IF fail = "write"
        THEN Aborted(prev, gen, mem,
                     <<"get_video_transcript", "convert_to_text_file">>, "write", <<>>)
        ELSE IF fail = "open"
        THEN Aborted(prev, gen, mem,
                     <<"get_video_transcript", "convert_to_text_file", "open">>,
                     "open", <<>>)
        ELSE IF c.raised
        THEN Aborted(prev, gen, mem,
                     <<"get_video_transcript", "convert_to_text_file", "open",
                       "download_button", "create_prompt", "chain">>,
                     "inference", prompt)
        ELSE Completed(prev, gen, mem,
                       <<"get_video_transcript", "convert_to_text_file", "open",
                         "download_button", "create_prompt", "chain">>,
                       VideoLabel, prompt, c)

\* ------------------------------------------------------------ the display block
\* if st.session_state["previous"]: the history loop over zip(previous, generated),
\* then the search of "output" (NameError caught, match = None) and, on a match,
\* the image generator, its decoding and st.image.
DisplayBlock(prev, gen, output, fail) ==
    LET match == IF output.defined THEN re_search(output.text) ELSE NoMatch
        result == strip(match.group1)
        shown == Zip(prev, gen)
        searched == IF output.defined THEN <<"display", "re.search">>
                    ELSE <<"display", "re.search", "NameError caught">>
    IN  IF prev = <<>>
        THEN [steps |-> <<>>, raised |-> "none", shown |-> <<>>, match |-> NoMatch,
              prompt |-> <<>>, image |-> FALSE]
        ELSE IF ~match.found
        THEN [steps |-> searched, raised |-> "none", shown |-> shown, match |-> match,
              prompt |-> <<>>, image |-> FALSE]
        ELSE IF fail = "generation"
        THEN [steps |-> searched \o <<"generate_image">>, raised |-> "generation",
              shown |-> shown, match |-> match, prompt |-> image_prompt(result),
              image |-> FALSE]
        ELSE IF fail = "image decoding"
        THEN [steps |-> searched \o <<"generate_image", "base64_to_pil">>,
              raised |-> "image decoding", shown |-> shown, match |-> match,
              prompt |-> image_prompt(result), image |-> FALSE]
        ELSE [steps |-> searched \o <<"generate_image", "base64_to_pil", "st.image">>,
              raised |-> "none", shown |-> shown, match |-> match,
              prompt |-> image_prompt(result), image |-> TRUE]

\* Nothing of the display block is executed after a branch has raised.
NoDisplay ==
    [steps |-> <<>>, raised |-> "none", shown |-> <<>>, match |-> NoMatch,
     prompt |-> <<>>, image |-> FALSE]

\* How the script run ends: no call of the script is wrapped in a handler but the
\* read of "output", so whatever raises reaches Streamlit, which shows the error.
ScriptStatus(raised) == IF raised = "none" THEN "ok" ELSE "error"

\* ------------------------------------------------------------ the state
\* session_state: st.session_state of each browser session that has connected.
\* memory: the buffer of the one cached chain (chain.memory), as its exchanges.
\* sent: per session, the chat calls answered since its last reset (history variable).
\* fresh: the sessions that have reset and have had no chat call answered since
\*        (history variable).
\* run: the record of the latest script run.
\* probe: a reply handed to the extractor alone, and what it returned.
IdleProbe == [reply |-> <<>>, done |-> FALSE, match |-> NoMatch, result |-> <<>>]

NoRun ==
    [session |-> "none", action |-> "none", steps |-> <<>>, raised |-> "none",
     status |-> "ok", first |-> FALSE, input |-> <<>>, context |-> <<>>,
     output |-> Undefined, match |-> NoMatch, prompt |-> <<>>, image |-> FALSE,
     shown |-> <<>>]

\* The server has started and no browser has connected; load_chain builds the
\* chain with an empty ConversationBufferMemory.
Init ==
    /\ session_state = [s \in {} |-> 0]
    /\ memory = <<>>
    /\ sent = [s \in {} |-> <<>>]
    /\ fresh = {}
    /\ run = NoRun
    /\ probe = IdleProbe

connected == DOMAIN session_state

\* load_chain(): the cached chain, the same object for every session.
load_chain(s) == memory

\* The rest of a script run once its branch b is over: the display block if the
\* branch did not raise, and the state the run leaves.
Finish(s, action, b, fail) ==
    LET d == IF b.raised = "none"
             THEN DisplayBlock(b.previous, b.generated, b.output, fail)
             ELSE NoDisplay
        raised == IF b.raised # "none" THEN b.raised ELSE d.raised
        answered == b.output.defined
    IN  /\ session_state' = [session_state EXCEPT ![s].previous = b.previous,
                                                  ![s].generated = b.generated]
        /\ memory' = b.memory
        /\ sent' = IF answered
                   THEN [sent EXCEPT ![s] = Append(@, [action |-> action,
                                                       input |-> b.input,
                                                       output |-> b.output.text])]
                   ELSE sent
        /\ fresh' = IF answered THEN fresh \ {s} ELSE fresh
        /\ run' = [session |-> s, action |-> action, steps |-> b.steps \o d.steps,
                   raised |-> raised, status |-> ScriptStatus(raised),
                   first |-> s \in fresh, input |-> b.input, context |-> b.context,
                   output |-> b.output, match |-> d.match, prompt |-> d.prompt,
                   image |-> d.image, shown |-> d.shown]
        /\ UNCHANGED probe

\* ------------------------------------------------------------ the script runs
\* A browser's first script run: the four keys are created; no button can be down
\* and "previous" is empty, so nothing else happens.
FirstRun(s) ==
    \E id \in IdRange, id_2 \in IdRange :
        /\ s \notin connected
        /\ session_state' = session_state @@
               (s :> [generated |-> <<>>, previous |-> <<>>,
                      unique_id |-> id, unique_id_2 |-> id_2])
        /\ sent' = sent @@ (s :> <<>>)
        /\ run' = [NoRun EXCEPT !.session = s, !.action = "first run"]
        /\ UNCHANGED <<memory, fresh, probe>>

\* "Send" pressed with a message typed.
DirectMessage(s, fails, replies) ==
    \E user_input \in UserTexts, uploaded_file \in Uploads, fail \in fails,
       reply \in replies :
        /\ s \in connected
        /\ Len(session_state[s].previous) < MaxTurns
        /\ Branch(TRUE, user_input, uploaded_file, FALSE, FALSE) = "direct"
        /\ Finish(s, "direct",
                  DirectBranch(session_state[s].previous, session_state[s].generated,
                               load_chain(s), user_input, fail, reply),
                  fail)

\* The uploader's "Submit" pressed with a file chosen.
DocumentSubmission(s, fails, replies) ==
    \E uploaded_file \in Uploads, fail \in fails, reply \in replies :
        /\ s \in connected
        /\ Len(session_state[s].previous) < MaxTurns
        /\ Branch(FALSE, "", uploaded_file, TRUE, FALSE) = "document"
        /\ Finish(s, "document",
                  DocumentBranch(session_state[s].previous, session_state[s].generated,
                                 load_chain(s), uploaded_file, fail, reply),
                  fail)

\* The URL's "Submit" pressed.
VideoSubmission(s, fails, replies) ==
    \E uploaded_file \in Uploads, contents \in Transcripts, fail \in fails,
       reply \in replies :
        /\ s \in connected
        /\ Len(session_state[s].previous) < MaxTurns
        /\ Branch(FALSE, "", uploaded_file, FALSE, TRUE) = "video"
        /\ Finish(s, "video",
                  VideoBranch(session_state[s].previous, session_state[s].generated,
                              load_chain(s), contents, fail, reply),
                  fail)

\* Any interaction that takes no branch: "Send" with nothing typed, the uploader's
\* "Submit" with no file, a file chosen, the download button, a URL typed.
Rerender(s, fails) ==
    \E click \in Clicks, user_input \in UserTexts, uploaded_file \in Uploads,
       fail \in fails \cap {"none", "generation"} :
        /\ s \in connected
        /\ Branch(click = "send", user_input, uploaded_file,
                  click = "file submit", click = "url submit") = "none"
        /\ Finish(s, "none",
                  NoBranch(session_state[s].previous, session_state[s].generated,
                           load_chain(s)),
                  fail)

\* The reset without its chain.memory.clear().
ClearMemory_Forgotten(mem) == mem

\* chain.memory.clear()
ClearMemory(mem) == <<>>

\* "Clear Conversation" pressed: the four keys are overwritten, the chain's
\* memory cleared; no other button is down, so no branch is taken, and the
\* display block finds "previous" empty.
ClearConversation(s) ==
    \E id \in IdRange, id_2 \in IdRange :
        LET b == NoBranch(<<>>, <<>>, ClearMemory(load_chain(s)))
            d == DisplayBlock(b.previous, b.generated, b.output, "none")
        IN  /\ s \in connected
            /\ session_state' = [session_state EXCEPT ![s] =
                   [generated |-> b.generated, previous |-> b.previous,
                    unique_id |-> id, unique_id_2 |-> id_2]]
            /\ memory' = b.memory
            /\ sent' = [sent EXCEPT ![s] = <<>>]
            /\ fresh' = fresh \cup {s}
            /\ run' = [NoRun EXCEPT !.session = s, !.action = "clear",
                                    !.steps = d.steps, !.shown = d.shown]
            /\ UNCHANGED probe

ScriptRun(s, fails, replies) ==
    \/ FirstRun(s)
    \/ DirectMessage(s, fails, replies)
    \/ DocumentSubmission(s, fails, replies)
    \/ VideoSubmission(s, fails, replies)
    \/ Rerender(s, fails)
    \/ ClearConversation(s)

\* One browser session, every remote call free to fail.
Next == \E s \in {"s1"} : ScriptRun(s, Failures, Replies)

Spec == Init /\ [][Next]_vars

\* Every session interacting, each script run to its end before the next one,
\* with a chat model that answers.
NextShared == \E s \in Sessions : ScriptRun(s, {"none"}, {<<"word">>})

SpecShared == Init /\ [][NextShared]_vars

\* ------------------------------------------------------------ the extractor alone
\* Every reply of at most MaxLen tokens, not yet searched.
InitExtract ==
    /\ session_state = [s \in {} |-> 0]
    /\ memory = <<>>
    /\ sent = [s \in {} |-> <<>>]
    /\ fresh = {}
    /\ run = NoRun
    /\ probe \in {[IdleProbe EXCEPT !.reply = r] : r \in SeqsUpTo(MaxLen)}

\* The search and the strip of the display block, applied to the reply.
Extract ==
    /\ ~probe.done
    /\ probe' = [reply |-> probe.reply, done |-> TRUE,
                 match |-> re_search(probe.reply),
                 result |-> strip(re_search(probe.reply).group1)]
    /\ UNCHANGED <<session_state, memory, sent, fresh, run>>

NextExtract == Extract

SpecExtract == InitExtract /\ [][NextExtract]_vars

\* ------------------------------------------------------------ what the claims use
\* The latest script run went through the history loop.
Displayed == Count(run.steps, "display") = 1

\* The latest script run had its chat call answered and appended the turn.
Answered == run.output.defined

\* What a turn's entry of "previous" has to be, given the chat call it records.
Recorded(e) ==
    CASE e.action = "direct" -> e.input[1]
      [] e.action = "document" -> FileLabel
      [] e.action = "video" -> VideoLabel

\* q occurs in p as a run of consecutive tokens.
Contains(p, q) ==
    \E i \in 0..(Len(p) - Len(q)) : SubSeq(p, i + 1, i + Len(q)) = q

IsPrefix(p, q) == Len(p) <= Len(q) /\ SubSeq(q, 1, Len(p)) = p

\* The first position of token t in r at or after position from; 0 if there is none.
IndexFrom(r, t, from) ==
    LET at == {i \in from..Len(r) : r[i] = t}
    IN  IF at = {} THEN 0 ELSE CHOOSE i \in at : \A j \in at : i <= j

\* The calls of the video branch, in the order the claim gives them.
VideoOrder ==
    <<"get_video_transcript", "convert_to_text_file", "open", "download_button",
      "create_prompt", "chain", "append previous", "append generated">>

InVideoOrder(x) == \E i \in 1..Len(VideoOrder) : VideoOrder[i] = x

\* ------------------------------------------------------------ the claims

\* C1: at every point the display layer can read them, a session's "previous" and
\* "generated" have the same length, the history loop shows every turn, and turn i
\* pairs the reply of the i-th answered chat call with the entry recorded for that
\* call (the user's text for a direct message, the placeholder otherwise).
C1_HistoryAligned ==
    \A s \in connected :
        LET st == session_state[s]
        IN  /\ Len(st.previous) = Len(st.generated)
            /\ Len(st.previous) = Len(sent[s])
            /\ \A i \in 1..Len(sent[s]) :
                   /\ i <= Len(st.generated) /\ st.generated[i] = sent[s][i].output
                   /\ i <= Len(st.previous) /\ st.previous[i] = Recorded(sent[s][i])
            /\ (run.session = s /\ Displayed) =>
                   /\ run.shown = Zip(st.previous, st.generated)
                   /\ Len(run.shown) = Len(st.previous)
                   /\ Len(run.shown) = Len(st.generated)

\* C1, reached: two different turns in the history, shown by the history loop.
C1_Witness ==
    /\ "s1" \in connected
    /\ Len(session_state["s1"].previous) = 2
    /\ session_state["s1"].previous[1] # session_state["s1"].previous[2]
    /\ session_state["s1"].generated[1] # session_state["s1"].generated[2]
    /\ Displayed

\* C2: a script run in which transcript acquisition, document decoding or the chat
\* call raises changes neither "previous" nor "generated" nor the chat memory, and
\* ends with the error shown and nothing of the display block executed.
C2_FailureRecordsNothing ==
    [][run'.raised \in {"acquisition", "decode", "inference"} =>
          /\ session_state' = session_state
          /\ memory' = memory
          /\ run'.status = "error"
          /\ ~Displayed'
          /\ ~run'.image]_vars

\* C2, reached: a failed action in a session that already holds a turn.
C2_Witness ==
    /\ run.raised \in {"acquisition", "decode", "inference"}
    /\ run.session \in connected
    /\ Len(session_state[run.session].previous) >= 1
    /\ Len(memory) >= 1

\* C3: when generate_image, or the decoding of what it returns, raises after an
\* action whose reply holds the thumbnail section, the reply is in the history and
\* the script run ends without an image and without an error.
C3_IllustrationFailureNonFatal ==
    run.raised \in {"generation", "image decoding"} =>
        /\ Answered
        /\ Last(session_state[run.session].generated) = run.output.text
        /\ ~run.image
        /\ run.status = "ok"

\* C4: "Clear Conversation" leaves the session's two lists and the chat memory
\* empty, and the first send a session has answered after its reset is answered
\* against an empty conversation context.  (The two tokens are drawn anew by the
\* reset; a draw may repeat the old value, which this formula leaves aside.)
C4_ResetClearsHistory ==
    /\ run.action = "clear" =>
           /\ session_state[run.session].previous = <<>>
           /\ session_state[run.session].generated = <<>>
           /\ memory = <<>>
    /\ (run.first /\ Answered) => run.context = <<>>

\* C5: the conversation memory a session's next send will be answered against
\* holds exactly the exchanges of that session's own answered sends since its own
\* last reset: no other session has added to it or emptied it.
C5_SessionOwnsItsMemory ==
    \A s \in connected :
        /\ Len(load_chain(s)) = Len(sent[s])
        /\ \A i \in 1..Len(sent[s]) :
               load_chain(s)[i] = [human |-> sent[s][i].input, ai |-> sent[s][i].output]

\* C6: every script run that goes through the history loop searches the latest
\* reply of the history, generated[-1], for the thumbnail section.
C6_SegmentFromLatestReply ==
    Displayed => run.match = re_search(Last(session_state[run.session].generated))

C8_AsStated ==
    probe.done =>
        LET r == probe.reply
            p == IndexFrom(r, START, 1)
            e == IndexFrom(r, END, 1)
            q == IF p = 0 THEN 0 ELSE IndexFrom(r, END, p + 1)
        IN  /\ (p # 0 /\ q # 0) =>
                   /\ probe.match.found
                   /\ probe.result = strip(SubSeq(r, p + 1, q - 1))
            /\ (p = 0 \/ e = 0) => ~probe.match.found
            /\ (p # 0 /\ e # 0 /\ e < p) => ~probe.match.found

\* C8, amended: the extraction returns the trimmed text between the first start
\* label and the nearest end label after it, and nothing exactly when there is no
\* start label or no end label after the first start label (so also when either
\* label is absent, and when every end label precedes the first start label).
C8_Extraction ==
    probe.done =>
        LET r == probe.reply
            p == IndexFrom(r, START, 1)
            e == IndexFrom(r, END, 1)
            q == IF p = 0 THEN 0 ELSE IndexFrom(r, END, p + 1)
        IN  /\ (p # 0 /\ q # 0) =>
                   /\ probe.match.found
                   /\ probe.match.start = p
                   /\ probe.match.stop = q
                   /\ probe.result = strip(SubSeq(r, p + 1, q - 1))
            /\ (p = 0 \/ e = 0) => ~probe.match.found
            /\ (p = 0 \/ q = 0) => ~probe.match.found

\* C8, reached: a match that stops at the nearer of two end labels and is trimmed.
C8_Witness ==
    /\ probe.done
    /\ probe.match.found
    /\ IndexFrom(probe.reply, END, probe.match.stop + 1) # 0
    /\ probe.result # probe.match.group1
    /\ probe.result # <<>>

\* C9: with one session alone, the chat memory holds as many exchanges as the
\* session's "previous" has entries; a script run whose chat call is answered adds
\* one to both, a reset empties both, and any other run changes neither.
C9_MemoryMatchesHistory ==
    /\ [](\A s \in connected : Len(load_chain(s)) = Len(session_state[s].previous))
    /\ [](connected = {} => memory = <<>>)
    /\ [][\A s \in connected :
              LET before == Len(session_state[s].previous)
                  after == Len(session_state'[s].previous)
              IN  /\ (run'.session = s /\ Answered') =>
                         after = before + 1 /\ Len(memory') = Len(memory) + 1
                  /\ (run'.session = s /\ run'.action = "clear") =>
                         after = 0 /\ memory' = <<>>
                  /\ (run'.session = s /\ ~Answered' /\ run'.action # "clear") =>
                         after = before /\ memory' = memory]_vars

\* C9, reached: after a reset, a send whose chat call failed.
C9_Witness ==
    /\ "s1" \in connected
    /\ "s1" \in fresh
    /\ run.session = "s1"
    /\ run.raised = "inference"
    /\ memory = <<>>

\* C10: a video submission makes its calls in the order acquisition, export
\* (write, reopen, download button), prompt building, chat call, the two appends,
\* stopping at the first that raises; if the export raises, the chat model has not
\* been called and the two lists and the chat memory are as they were.
C10_VideoOrder ==
    /\ [](run.action = "video" =>
              /\ IsPrefix(SelectSeq(run.steps, InVideoOrder), VideoOrder)
              /\ Count(run.steps, "get_video_transcript") = 1
              /\ Count(run.steps, "chain") = 1 =>
                     /\ Count(run.steps, "convert_to_text_file") = 1
                     /\ Count(run.steps, "open") = 1
              /\ run.raised \in {"write", "open"} =>
                     /\ Count(run.steps, "chain") = 0
                     /\ Count(run.steps, "append previous") = 0
                     /\ Count(run.steps, "append generated") = 0
                     /\ run.status = "error")
    /\ [][(run'.action = "video" /\ run'.raised \in {"write", "open"}) =>
              session_state' = session_state /\ memory' = memory]_vars

\* C10, reached: the reopening of the export raised, with a turn in the history.
C10_Witness ==
    /\ run.action = "video"
    /\ run.raised = "open"
    /\ Len(session_state[run.session].previous) >= 1

====
